---------------------------- MODULE Spec2Model ----------------------------
(***************************************************************************)
(* Model of procesador.py (PlanetaFiscal - texto a datos estructurados):   *)
(* the schema validator validar_json, the retry loop extraer_datos and     *)
(* the batch loop procesar_archivos with the __main__ entry point.         *)
(*                                                                         *)
(* Strings whose characters the code inspects (strip, strptime) are        *)
(* tuples of one-character strings.  A JSON value of a field is a record   *)
(* [t |-> <Python type name>, v |-> <its literal text>].                   *)
(***************************************************************************)
EXTENDS Integers, Sequences, FiniteSets, TLC

VARIABLES
    entrada,      \* validar_json: the reply text handed to the validator
    validado,     \* validar_json: <<>> before the call, <<result>> after it
    pc,           \* position of the process in __main__ / procesar_archivos
    api_key,      \* os.getenv("OPENAI_API_KEY")
    directorio,   \* the files of INPUT_DIR
    archivos,     \* sorted list of supported files (procesar_archivos)
    idx,          \* index in archivos of the document being processed
    texto,        \* text returned by leer_archivo for the current document
    respuesta,    \* texto_respuesta of the latest completion reply
    datos_doc,    \* datos: record extraer_datos returned for the current document
    intento,      \* loop variable of extraer_datos
    peticiones,   \* completion requests issued for the current document
    historial,    \* outcome of every attempt made for the current document
    resultados,   \* list resultados of procesar_archivos
    errores,      \* list errores of procesar_archivos
    salida,       \* OUTPUT_DIR: stem |-> content of <stem>_resultado.json
    resumen,      \* OUTPUT_DIR: <<>> or <<content of resumen_completo.json>>
    leidos,       \* files handed to leer_archivo so far
    escrituras,   \* number of write_text calls made so far
    total_peticiones, \* completion requests issued in the whole run
    excepcion,    \* <<>> or <<exception that left procesar_archivos>>
    exit_status,  \* -1 while running, else the exit status of the process
    reloj,        \* datetime.now(): a logical clock
    enviados,     \* messages of every request made for the current document
    corrida,      \* number of the run of the program over the directory
    anterior,     \* <<>> or <<what the previous run left and was answered>>
    registro      \* outcome of every completion request of the run

vars == <<entrada, validado, pc, api_key, directorio, archivos, idx, texto,
          respuesta, datos_doc, intento, peticiones, historial, resultados,
          errores, salida, resumen, leidos, escrituras, total_peticiones,
          excepcion, exit_status, reloj, enviados, corrida, anterior,
          registro>>

loteVars == <<pc, api_key, directorio, archivos, idx, texto, respuesta, datos_doc,
              intento, peticiones, historial, resultados, errores, salida,
              resumen, leidos, escrituras, total_peticiones, excepcion,
              exit_status, reloj, enviados, corrida, anterior, registro>>

-----------------------------------------------------------------------------
(* Program constants *)

\* a retry budget that is one too large
CuatroIntentos == 3 + 1

MAX_REINTENTOS == 3

CAMPOS_REQUERIDOS == {"nombre_cliente", "monto", "fecha", "tipo_solicitud"}

Venta == <<"V","e","n","t","a">>
Queja == <<"Q","u","e","j","a">>
Factura == <<"F","a","c","t","u","r","a">>

TIPOS_VALIDOS == {Venta, Queja, Factura}

EXTENSIONES_SOPORTADAS ==
    { <<".","t","x","t">>, <<".","p","d","f">>, <<".","d","o","c","x">>,
      <<".","x","l","s","x">>, <<".","x","l","s">> }

PLACEHOLDER_KEY == "sk-tu-api-key-aqui"

-----------------------------------------------------------------------------
(* JSON values as json.loads builds them *)

Str(cs) == [t |-> "str", v |-> cs]
Num(tipo, cs) == [t |-> tipo, v |-> cs]
Null == [t |-> "NoneType", v |-> <<"n","u","l","l">>]
JsonTrue == [t |-> "bool", v |-> <<"t","r","u","e">>]
JsonFalse == [t |-> "bool", v |-> <<"f","a","l","s","e">>]
ListaVacia == [t |-> "list", v |-> <<"[","]">>]

Obj(f) == [k |-> "dict", obj |-> f, items |-> <<>>, val |-> Null]
Lista(xs) == [k |-> "list", obj |-> <<>>, items |-> xs, val |-> Null]
Escalar(x) == [k |-> "scalar", obj |-> <<>>, items |-> <<>>, val |-> x]
NoJson == [k |-> "garbage", obj |-> <<>>, items |-> <<>>, val |-> Null]

\* type(x).__name__
TypeName(d) == IF d.k = "scalar" THEN d.val.t ELSE d.k

\* isinstance(x, clases): bool is a subclass of int in Python
isinstance(x, clases) ==
    \E c \in clases : x.t = c \/ (x.t = "bool" /\ c = "int")

-----------------------------------------------------------------------------
(* Exceptions: class, fixed message text and the values the message names *)

Exc(cls, msg) ==
    [cls |-> cls, msg |-> msg, faltantes |-> {}, permitidos |-> {},
     valor |-> <<>>, tipo |-> "", n |-> 0, causa |-> <<>>]

ExcValor(cls, msg, valor) == [Exc(cls, msg) EXCEPT !.valor = valor]
ExcTipo(cls, msg, tipo) == [Exc(cls, msg) EXCEPT !.tipo = tipo]

Ok(datos) == [ok |-> TRUE, datos |-> datos, exc |-> Exc("", "")]
Raise(e) == [ok |-> FALSE, datos |-> <<>>, exc |-> e]

-----------------------------------------------------------------------------
(* str.strip() and datetime.strptime(s, "%Y-%m-%d") on character tuples *)

Blanco(c) == c \in {" ", "\t", "\n"}

RECURSIVE lstrip(_)
lstrip(s) == IF s # <<>> /\ Blanco(Head(s)) THEN lstrip(Tail(s)) ELSE s

RECURSIVE rstrip(_)
rstrip(s) ==
    IF s # <<>> /\ Blanco(s[Len(s)]) THEN rstrip(SubSeq(s, 1, Len(s) - 1))
    ELSE s

strip(s) == rstrip(lstrip(s))

MAYUSCULAS == <<"A","B","C","D","E","F","G","H","I","J","K","L","M","N","O",
                "P","Q","R","S","T","U","V","W","X","Y","Z">>
MINUSCULAS == <<"a","b","c","d","e","f","g","h","i","j","k","l","m","n","o",
                "p","q","r","s","t","u","v","w","x","y","z">>

\* str.lower()
LowerChar(c) ==
    IF \E i \in 1..Len(MAYUSCULAS) : MAYUSCULAS[i] = c
    THEN MINUSCULAS[CHOOSE i \in 1..Len(MAYUSCULAS) : MAYUSCULAS[i] = c]
    ELSE c

lower(s) == [i \in 1..Len(s) |-> LowerChar(s[i])]

Digitos == <<"0","1","2","3","4","5","6","7","8","9">>
ValorDigito(c) == (CHOOSE i \in 1..10 : Digitos[i] = c) - 1

\* does s have, from position i on, the characters cs[1], cs[2], ... in the
\* classes given (each class a set of characters)
Coincide(s, i, clases) ==
    /\ i + Len(clases) - 1 <= Len(s)
    /\ \A j \in 1..Len(clases) : s[i + j - 1] \in clases[j]

D09 == {"0","1","2","3","4","5","6","7","8","9"}
D19 == D09 \ {"0"}

\* _strptime's regex for %m: 1[0-2]|0[1-9]|[1-9], in that order
AlternativasMes == << <<{"1"}, {"0","1","2"}>>, <<{"0"}, D19>>, <<D19>> >>
\* _strptime's regex for %d: 3[0-1]|[1-2]\d|0[1-9]|[1-9]| [1-9]
AlternativasDia ==
    << <<{"3"}, {"0","1"}>>, <<{"1","2"}, D09>>, <<{"0"}, D19>>, <<D19>>,
       <<{" "}, D19>> >>

\* the number a matched group stands for (int() of the group: a leading
\* blank or zero does not count)
RECURSIVE ValorGrupo(_, _)
ValorGrupo(cs, acc) ==
    IF cs = <<>> THEN acc
    ELSE ValorGrupo(Tail(cs),
                    IF Head(cs) = " " THEN acc ELSE 10 * acc + ValorDigito(Head(cs)))

EsBisiesto(y) == y % 4 = 0 /\ (y % 100 # 0 \/ y % 400 = 0)

DiasDelMes(y, m) ==
    IF m = 2 THEN (IF EsBisiesto(y) THEN 29 ELSE 28)
    ELSE IF m \in {4, 6, 9, 11} THEN 30 ELSE 31

\* re.match of (\d\d\d\d)-(%m)-(%d) on s, alternatives tried in order with
\* backtracking; the result is the first match: [y, m, d, fin] or none
Coincidencias(s) ==
    IF ~(Coincide(s, 1, <<D09, D09, D09, D09, {"-"}>>)) THEN <<>>
    ELSE LET porMes(a) ==
                 LET lm == Len(AlternativasMes[a])
                 IN  IF ~(Coincide(s, 6, AlternativasMes[a] \o <<{"-"}>>))
                     THEN <<>>
                     ELSE LET ini == 6 + lm + 1
                              dias == { b \in 1..Len(AlternativasDia) :
                                          Coincide(s, ini, AlternativasDia[b]) }
                          IN  IF dias = {} THEN <<>>
                              ELSE LET b == CHOOSE e \in dias :
                                                \A c \in dias : e <= c
                                       ld == Len(AlternativasDia[b])
                                   IN  << [y |-> ValorGrupo(SubSeq(s, 1, 4), 0),
                                           m |-> ValorGrupo(SubSeq(s, 6, 5 + lm), 0),
                                           d |-> ValorGrupo(SubSeq(s, ini, ini + ld - 1), 0),
                                           fin |-> ini + ld - 1] >>
              meses == { a \in 1..Len(AlternativasMes) : porMes(a) # <<>> }
          IN  IF meses = {} THEN <<>>
              ELSE porMes(CHOOSE e \in meses : \A c \in meses : e <= c)

\* TRUE iff datetime.strptime(s, "%Y-%m-%d") returns (raises no ValueError)
strptime_ok(s) ==
    LET found == Coincidencias(s)
    IN  /\ found # <<>>                          \* "does not match format"
        /\ found[1].fin = Len(s)                 \* "unconverted data remains"
        /\ found[1].y >= 1                       \* "year 0 is out of range"
        /\ found[1].d <= DiasDelMes(found[1].y, found[1].m)


-----------------------------------------------------------------------------
(* validar_json.  A reply text is [none, lineas]: none is TRUE when the     *)
(* message content is None; lineas are its lines, each a fence line (it    *)
(* starts with three backticks), a blank line, or a line holding one JSON  *)
(* document (NoJson when it is not JSON at all).                           *)

Linea(kind, doc) == [kind |-> kind, doc |-> doc]
Fence == Linea("fence", NoJson)
EnBlanco == Linea("blank", NoJson)
Texto(lineas) == [none |-> FALSE, lineas |-> lineas]
ContentNone == [none |-> TRUE, lineas |-> <<>>]

RECURSIVE lstrip_lineas(_)
lstrip_lineas(ls) ==
    IF ls # <<>> /\ Head(ls).kind = "blank" THEN lstrip_lineas(Tail(ls)) ELSE ls

RECURSIVE rstrip_lineas(_)
rstrip_lineas(ls) ==
    IF ls # <<>> /\ ls[Len(ls)].kind = "blank"
    THEN rstrip_lineas(SubSeq(ls, 1, Len(ls) - 1))
    ELSE ls

\* texto.strip(): the blank lines before and after the text go
strip_texto(ls) == rstrip_lineas(lstrip_lineas(ls))

EsFence(l) == l.kind = "fence"
NoEsFence(l) == l.kind # "fence"
NoEsBlanco(l) == l.kind # "blank"

\* lines 175-179: the markdown wrapper is removed only from a text that
\* starts with a fence; then every fence line goes
limpiar_markdown(ls) ==
    LET t == strip_texto(ls)
    IN  IF t # <<>> /\ EsFence(t[1])
        THEN strip_texto(SelectSeq(t, NoEsFence))
        ELSE t

\* json.loads: exactly one JSON document, white space around it allowed
json_loads(ls) ==
    LET docs == SelectSeq(ls, NoEsBlanco)
    IN  IF Len(docs) = 1 /\ docs[1].kind = "json" /\ docs[1].doc.k # "garbage"
        THEN <<docs[1].doc>>
        ELSE <<>>

\* a check that stops at the first missing field it meets
campos_faltantes_primero(datos) ==
    IF CAMPOS_REQUERIDOS \ DOMAIN datos = {} THEN {}
    ELSE {CHOOSE c \in CAMPOS_REQUERIDOS \ DOMAIN datos : TRUE}

\* line 198: CAMPOS_REQUERIDOS - set(datos.keys())
campos_faltantes(datos) == CAMPOS_REQUERIDOS \ DOMAIN datos

\* a membership test that ignores case
tipo_valido_sin_caso(x) ==
    x.t = "str" /\ \E t \in TIPOS_VALIDOS : lower(x.v) = lower(t)

\* line 217: datos["tipo_solicitud"] in TIPOS_VALIDOS (str equality)
tipo_valido(x) == x.t = "str" /\ x.v \in TIPOS_VALIDOS

\* line 207: isinstance(datos["monto"], (int, float))
monto_numerico(x) == isinstance(x, {"int", "float"})

\* lines 197-223: the checks on the dict
validar_campos(datos) ==
    IF campos_faltantes(datos) # {}
    THEN Raise([Exc("ValueError", "Campos faltantes en el JSON")
                    EXCEPT !.faltantes = campos_faltantes(datos)])
    ELSE IF ~isinstance(datos["nombre_cliente"], {"str"})
            \/ strip(datos["nombre_cliente"].v) = <<>>
    THEN Raise(Exc("ValueError", "'nombre_cliente' debe ser un string no vacio."))
    ELSE IF datos["monto"] # Null /\ ~monto_numerico(datos["monto"])
    THEN Raise(ExcTipo("ValueError", "'monto' debe ser numerico o null, se recibio",
                       datos["monto"].t))
    ELSE IF ~isinstance(datos["fecha"], {"str"})
    THEN Raise(Exc("ValueError", "'fecha' debe ser un string en formato YYYY-MM-DD."))
    ELSE IF ~strptime_ok(datos["fecha"].v)
    THEN Raise(ExcValor("ValueError", "'fecha' no tiene formato YYYY-MM-DD valido",
                        datos["fecha"].v))
    ELSE IF datos["tipo_solicitud"].t \in {"list", "dict"}
    THEN Raise(ExcTipo("TypeError", "unhashable type", datos["tipo_solicitud"].t))
    ELSE IF ~tipo_valido(datos["tipo_solicitud"])
    THEN Raise([ExcValor("ValueError", "'tipo_solicitud' invalido. Valores permitidos",
                         datos["tipo_solicitud"].v)
                    EXCEPT !.permitidos = TIPOS_VALIDOS])
    ELSE Ok(datos)

\* a validator that keeps the last element of a list reply
ultimo_elemento(items) == items[Len(items)]

\* line 191: datos = datos[0]
primer_elemento(items) == items[1]

validar_json(respuesta_texto) ==
    IF respuesta_texto.none
    THEN Raise(Exc("AttributeError", "'NoneType' object has no attribute 'strip'"))
    ELSE LET parsed == json_loads(limpiar_markdown(respuesta_texto.lineas))
         IN  IF parsed = <<>>
             THEN Raise(Exc("ValueError", "Respuesta no es JSON valido"))
             ELSE LET datos0 == parsed[1]
                  IN  IF datos0.k = "list" /\ Len(datos0.items) = 0
                      THEN Raise(Exc("ValueError", "La IA devolvio una lista vacia."))
                      ELSE LET datos == IF datos0.k = "list"
                                        THEN primer_elemento(datos0.items)
                                        ELSE datos0
                           IN  IF datos.k # "dict"
                               THEN Raise(ExcTipo("ValueError",
                                          "Se esperaba un objeto JSON, se recibio",
                                          TypeName(datos)))
                               ELSE validar_campos(datos.obj)


-----------------------------------------------------------------------------
(* The replies the validator is run on *)

MaxLista == 2      \* longest list reply

Acme == <<"A","c","m","e">>
Fecha1 == <<"2","0","2","4","-","0","1","-","1","5">>
Cien == Num("int", <<"1","0","0">>)

NombreValores ==
    { Str(Acme), Str(<<" ","X"," ">>), Str(<<" ","\t">>), Str(<<>>),
      Num("int", <<"7">>), Null }

MontoValores ==
    { Null, Cien, Num("int", <<"-","5">>), Num("float", <<"1",".","5">>),
      Num("float", <<"N","a","N">>), Str(<<"1","0","0">>), Str(<<>>),
      JsonTrue, JsonFalse, ListaVacia }

FechaValores ==
    { Str(Fecha1),
      Str(<<"2","0","2","4","-","0","2","-","2","9">>),
      Str(<<"2","0","2","3","-","0","2","-","2","9">>),
      Str(<<"2","0","2","4","-","0","2","-","3","0">>),
      Str(<<"2","0","2","4","-","1","-","5">>),
      Str(<<"2","0","2","4","-","0","1","-"," ","5">>),
      Str(<<"2","0","2","4","-","1","2","-","3","1">>),
      Str(<<"2","0","2","4","-","1","3","-","0","1">>),
      Str(<<"2","0","2","4","-","0","1","-","1","5","5">>),
      Str(<<"2","0","2","4","/","0","1","/","1","5">>),
      Str(<<"1","5","-","0","1","-","2","0","2","4">>),
      Str(<<"0","0","0","0","-","0","1","-","0","1">>),
      Str(<<>>),
      Num("int", <<"2","0","2","4","0","1","1","5">>), Null }

TipoValores ==
    { Str(Venta), Str(Queja), Str(Factura),
      Str(<<"v","e","n","t","a">>), Str(<<"V","E","N","T","A">>),
      Str(<<"q","u","e","j","a">>), Str(<<"f","a","c","t","u","r","a">>),
      Str(<<"V","e","n","t","a"," ">>), Str(<<"O","t","r","o">>), Str(<<>>),
      Num("int", <<"1">>), Null, ListaVacia }

Registro(nombre, monto, fecha, tipo) ==
    [c \in CAMPOS_REQUERIDOS |->
        CASE c = "nombre_cliente" -> nombre
          [] c = "monto" -> monto
          [] c = "fecha" -> fecha
          [] OTHER -> tipo]

RegistroBase == Registro(Str(Acme), Cien, Str(Fecha1), Str(Venta))

\* f with the key "confianza" added: a key the schema does not know
ConExtra(f) ==
    [c \in DOMAIN f \cup {"confianza"} |->
        IF c \in DOMAIN f THEN f[c] ELSE Num("float", <<"0",".","9">>)]

Restringir(f, claves) == [c \in claves |-> f[c]]

\* records with every field drawn from a few values, good and bad
RegistrosNucleo ==
    { Registro(n, m, f, t) :
        n \in {Str(Acme), Str(<<" ","\t">>)},
        m \in {Null, Cien, Str(<<"1","0","0">>), JsonTrue},
        f \in {Str(Fecha1), Str(<<"2","0","2","4","/","0","1","/","1","5">>)},
        t \in {Str(Venta), Str(<<"v","e","n","t","a">>)} }

\* records that differ from the well-formed one in one field
RegistrosUnCampo ==
    { [RegistroBase EXCEPT !["nombre_cliente"] = x] : x \in NombreValores }
      \cup { [RegistroBase EXCEPT !["monto"] = x] : x \in MontoValores }
      \cup { [RegistroBase EXCEPT !["fecha"] = x] : x \in FechaValores }
      \cup { [RegistroBase EXCEPT !["tipo_solicitud"] = x] : x \in TipoValores }

\* combinations of amount and request type on an otherwise well-formed record
RegistrosMontoTipo ==
    { [RegistroBase EXCEPT !["monto"] = m, !["tipo_solicitud"] = t] :
        m \in MontoValores, t \in TipoValores }

Objetos ==
    { Restringir(f, claves) : f \in RegistrosNucleo,
                              claves \in SUBSET CAMPOS_REQUERIDOS }
      \cup { ConExtra(Restringir(f, claves)) :
                f \in RegistrosNucleo, claves \in SUBSET CAMPOS_REQUERIDOS }
      \cup RegistrosUnCampo
      \cup { ConExtra(f) : f \in RegistrosUnCampo }
      \cup RegistrosMontoTipo

Elementos ==
    { Obj(RegistroBase),
      Obj([RegistroBase EXCEPT !["tipo_solicitud"] = Str(Queja)]),
      Obj(Restringir(RegistroBase, {"monto", "fecha"})),
      Escalar(Cien), Lista(<<>>), Lista(<<Obj(RegistroBase)>>) }

Listas ==
    UNION { [1..n -> Elementos] : n \in 0..MaxLista }

Documentos ==
    { Obj(f) : f \in Objetos } \cup { Lista(xs) : xs \in Listas }
      \cup { Escalar(Cien), Escalar(Null), Escalar(Str(Acme)), NoJson }

\* documents that are also sent inside a markdown wrapper, between blank
\* lines, followed by a stray fence, or twice
DocumentosEnvueltos ==
    { Obj(RegistroBase), Obj(ConExtra(RegistroBase)),
      Obj(Restringir(RegistroBase, {"monto"})), Lista(<<Obj(RegistroBase)>>),
      NoJson }

RespuestasValidar ==
    { Texto(<<Linea("json", d)>>) : d \in Documentos }
      \cup { Texto(<<Fence, Linea("json", d), Fence>>) : d \in DocumentosEnvueltos }
      \cup { Texto(<<EnBlanco, Fence, Linea("json", d), Fence, EnBlanco>>) :
                d \in DocumentosEnvueltos }
      \cup { Texto(<<EnBlanco, Linea("json", d), EnBlanco>>) :
                d \in DocumentosEnvueltos }
      \cup { Texto(<<Linea("json", d), Fence>>) : d \in DocumentosEnvueltos }
      \cup { Texto(<<Linea("json", d), Linea("json", d)>>) :
                d \in DocumentosEnvueltos }
      \cup { Texto(<<>>), Texto(<<Fence, Fence>>), ContentNone }


-----------------------------------------------------------------------------
(* File names: pathlib's suffix and stem, str.lower, and the order of       *)
(* sorted() on paths (by code point)                                       *)


\* the characters of the file names, in code point order
Alfabeto == <<".">> \o Digitos \o MAYUSCULAS \o <<"_">> \o MINUSCULAS

Ord(c) == CHOOSE i \in 1..Len(Alfabeto) : Alfabeto[i] = c

\* position of the last dot that starts a suffix, 0 when there is none
PosSufijo(nombre) ==
    LET puntos == { i \in 2..(Len(nombre) - 1) : nombre[i] = "." }
    IN  IF puntos = {} \/ nombre[Len(nombre)] = "." THEN 0
        ELSE CHOOSE i \in puntos : \A j \in puntos : j <= i

suffix(nombre) ==
    IF PosSufijo(nombre) = 0 THEN <<>>
    ELSE SubSeq(nombre, PosSufijo(nombre), Len(nombre))

stem(nombre) ==
    IF PosSufijo(nombre) = 0 THEN nombre
    ELSE SubSeq(nombre, 1, PosSufijo(nombre) - 1)

RECURSIVE Menor(_, _)
Menor(a, b) ==
    IF a = <<>> THEN b # <<>>
    ELSE IF b = <<>> THEN FALSE
    ELSE IF Head(a) # Head(b) THEN Ord(Head(a)) < Ord(Head(b))
    ELSE Menor(Tail(a), Tail(b))

\* a listing in descending order of name
RECURSIVE sorted_inverso(_)
sorted_inverso(fs) ==
    IF fs = {} THEN <<>>
    ELSE LET f == CHOOSE x \in fs : \A y \in fs \ {x} : Menor(y.nombre, x.nombre)
         IN  <<f>> \o sorted_inverso(fs \ {f})

RECURSIVE sorted(_)
sorted(fs) ==
    IF fs = {} THEN <<>>
    ELSE LET f == CHOOSE x \in fs : \A y \in fs \ {x} : Menor(x.nombre, y.nombre)
         IN  <<f>> \o sorted(fs \ {f})

\* a listing that keeps every file of the directory
listar_archivos_sin_filtro(dir) == sorted(dir)

\* lines 282-285: the supported files of the directory, sorted
listar_archivos(dir) ==
    sorted({ f \in dir : lower(suffix(f.nombre)) \in EXTENSIONES_SOPORTADAS })

-----------------------------------------------------------------------------
(* leer_archivo.  A file is [nombre, contenido]; contenido is "texto" (it   *)
(* holds text, UTF-8), "latin1" (text that is not valid UTF-8) or "vacio"   *)
(* (no text at all).                                                       *)

TextoDe(f, cuerpo) == [de |-> f.nombre, cuerpo |-> cuerpo]

\* bytes.decode(enc) of the content: only UTF-8 can fail here
decodifica(enc, f) == enc # "utf-8" \/ f.contenido # "latin1"

\* lines 105-113
leer_txt(f) ==
    LET encodings == <<"utf-8", "latin-1", "cp1252">>
        validos == { i \in 1..Len(encodings) : decodifica(encodings[i], f) }
    IN  IF validos = {}
        THEN Raise(Exc("ValueError", "No se pudo decodificar el archivo"))
        ELSE Ok(TextoDe(f, f.contenido))

\* lines 116-127
leer_pdf(f) ==
    IF f.contenido = "vacio"
    THEN Raise(Exc("ValueError", "El PDF no contiene texto extraible"))
    ELSE Ok(TextoDe(f, f.contenido))

\* lines 130-145
leer_docx(f) ==
    IF f.contenido = "vacio"
    THEN Raise(Exc("ValueError", "El documento Word esta vacio"))
    ELSE Ok(TextoDe(f, f.contenido))

\* lines 148-166: every sheet adds its header line, so the text of a
\* workbook is never blank
leer_excel(f) ==
    Ok(TextoDe(f, IF f.contenido = "vacio" THEN "hojas" ELSE f.contenido))

\* lines 86-102
leer_archivo(f) ==
    LET ext == lower(suffix(f.nombre))
    IN  IF ext = <<".","t","x","t">> THEN leer_txt(f)
        ELSE IF ext = <<".","p","d","f">> THEN leer_pdf(f)
        ELSE IF ext = <<".","d","o","c","x">> THEN leer_docx(f)
        ELSE IF ext \in {<<".","x","l","s","x">>, <<".","x","l","s">>}
        THEN leer_excel(f)
        ELSE Raise(Exc("ValueError", "Formato no soportado"))


-----------------------------------------------------------------------------
(* crear_cliente_openai and extraer_datos *)

\* os.getenv: [set |-> FALSE] when the variable is not in the environment
SinClave == [set |-> FALSE, valor |-> ""]
Clave(v) == [set |-> TRUE, valor |-> v]

\* a check that forgets the placeholder of the .env template
clave_valida_sin_placeholder(k) == k.set /\ k.valor # ""

\* line 78, negated: not (not api_key or api_key == "sk-tu-api-key-aqui")
clave_valida(k) == k.set /\ k.valor # "" /\ k.valor # PLACEHOLDER_KEY

\* lines 75-83
crear_cliente_openai(k) ==
    IF ~clave_valida(k)
    THEN Raise(Exc("EnvironmentError", "OPENAI_API_KEY no configurada."))
    ELSE Ok(k)

\* line 231: range(1, MAX_REINTENTOS + 1)
\* a loop that stops one attempt short of the one the handlers give up on
RangoIntentos_corto == 1..(MAX_REINTENTOS - 1)

RangoIntentos == 1..MAX_REINTENTOS

\* a try block that parses the reply and returns it unvalidated
procesar_respuesta_sin_validar(r) ==
    IF r.none THEN validar_json(r)
    ELSE LET parsed == json_loads(limpiar_markdown(r.lineas))
         IN  IF parsed # <<>> /\ parsed[1].k = "dict" THEN Ok(parsed[1].obj)
             ELSE validar_json(r)

\* lines 244-249: what the try block makes of a reply
procesar_respuesta(r) == validar_json(r)

Mensaje(role, prompt, adjunto) ==
    [role |-> role, content |-> [prompt |-> prompt, adjunto |-> adjunto]]

\* a request that tells the model what went wrong in the earlier attempts
mensajes_con_pista(t, previos) ==
    << Mensaje("system", "SYSTEM_PROMPT", <<>>),
       Mensaje("user", "Extrae los datos del siguiente texto:", <<t>> \o previos) >>

\* lines 238-241: the messages of the request for the document text t;
\* previos, the errors of the earlier attempts, is not used
mensajes(t, previos) ==
    << Mensaje("system", "SYSTEM_PROMPT", <<>>),
       Mensaje("user", "Extrae los datos del siguiente texto:", <<t>>) >>

Fatal(msg, e) ==
    [Exc("RuntimeError", msg) EXCEPT !.n = MAX_REINTENTOS, !.causa = <<e>>]

Continuar == [raise |-> FALSE, exc |-> Exc("", "")]

\* a handler that gives up on the first error of the client
manejar_error_api_inmediato(i, e) ==
    IF e.cls = "ValueError"
    THEN IF i = MAX_REINTENTOS
         THEN [raise |-> TRUE,
               exc |-> Fatal("Fallo la extraccion despues de n intentos. Ultimo error", e)]
         ELSE Continuar
    ELSE [raise |-> TRUE, exc |-> Fatal("Error de API despues de n intentos", e)]

\* a handler whose final error does not carry the error it handles
manejar_error_generico(i, e) ==
    IF i = MAX_REINTENTOS
    THEN [raise |-> TRUE,
          exc |-> [Exc("RuntimeError", "Fallo la extraccion despues de n intentos.")
                       EXCEPT !.n = MAX_REINTENTOS]]
    ELSE Continuar

\* lines 251-264: the two except clauses of the loop body, on attempt i
manejar_error(i, e) ==
    IF e.cls = "ValueError"
    THEN IF i = MAX_REINTENTOS
         THEN [raise |-> TRUE,
               exc |-> Fatal("Fallo la extraccion despues de n intentos. Ultimo error", e)]
         ELSE Continuar
    ELSE IF i = MAX_REINTENTOS
         THEN [raise |-> TRUE,
               exc |-> Fatal("Error de API despues de n intentos", e)]
         ELSE Continuar

\* line 321: except RuntimeError
capturada(e) == e.cls = "RuntimeError"

\* an artifact that also carries the time it was written at
contenido_individual_con_fecha(d) == [datos |-> d, procesado_en |-> reloj]

\* line 316: json.dumps(datos, ...), the content of the individual artifact
contenido_individual(d) == d

\* Path.write_text on <stem>_resultado.json: the file is created or replaced
write_text(dir, s, contenido) ==
    [x \in DOMAIN dir \cup {s} |-> IF x = s THEN contenido ELSE dir[x]]

-----------------------------------------------------------------------------
(* The runs: directories, credentials, completion outcomes *)

a_pdf == <<"a",".","p","d","f">>
a_txt == <<"a",".","t","x","t">>
b_XLSX == <<"b",".","X","L","S","X">>
n_md == <<"n",".","m","d">>

Archivo(nombre, contenido) == [nombre |-> nombre, contenido |-> contenido]

\* the contents each file of the directory may have; "" is "no such file"
ContenidosPosibles(nombre) ==
    IF nombre = a_txt THEN {"", "texto", "latin1", "vacio"}
    ELSE IF nombre = n_md THEN {"", "texto"}
    ELSE {"", "texto", "vacio"}

MaxArchivos == 3   \* most files in the input directory

Directorios ==
    { d \in { { Archivo(nombre, c[nombre]) : nombre \in { x \in DOMAIN c : c[x] # "" } } :
                c \in { g \in [{a_pdf, a_txt, b_XLSX, n_md} ->
                                    {"", "texto", "latin1", "vacio"}] :
                            \A x \in DOMAIN g : g[x] \in ContenidosPosibles(x) } } :
        Cardinality(d) <= MaxArchivos }

Claves == { SinClave, Clave(""), Clave(PLACEHOLDER_KEY), Clave("sk-proj-1") }

RegistroQueja ==
    ConExtra(Registro(Str(Acme), Null, Str(Fecha1), Str(Queja)))

\* what one completion request may bring: a reply text, or an exception of
\* the client (transport, authentication, rate limit)
RespuestasLote ==
    { Texto(<<Linea("json", Obj(RegistroBase))>>),
      Texto(<<Fence, Linea("json", Obj(RegistroQueja)), Fence>>),
      Texto(<<Linea("json", Obj(Restringir(RegistroBase, {"monto", "fecha"})))>>),
      Texto(<<Linea("json", NoJson)>>) }

ErroresCliente == { Exc("APIError", "Rate limit reached") }

SinRespuesta == Texto(<<>>)
SinDatos == <<>>

-----------------------------------------------------------------------------
(* __main__ and procesar_archivos as a process.  pc: "main" (line 353),     *)
(* "listar" (279), "leer" (298-302), "intento" (231-264), "guardar"        *)
(* (306-319), "resumen" (326-346), "return" (354-356), "main_except"       *)
(* (357-362, or no handler), "exit".                                       *)

Init ==
    /\ entrada = SinRespuesta
    /\ validado = <<>>
    /\ pc = "main"
    /\ api_key \in Claves
    /\ directorio \in Directorios
    /\ archivos = <<>>
    /\ idx = 0
    /\ texto = <<>>
    /\ respuesta = SinRespuesta
    /\ datos_doc = SinDatos
    /\ intento = 0
    /\ peticiones = 0
    /\ historial = <<>>
    /\ resultados = <<>>
    /\ errores = <<>>
    /\ salida = <<>>
    /\ resumen = <<>>
    /\ leidos = {}
    /\ escrituras = 0
    /\ total_peticiones = 0
    /\ excepcion = <<>>
    /\ exit_status = -1
    /\ reloj = 0
    /\ enviados = <<>>
    /\ corrida = 1
    /\ anterior = <<>>
    /\ registro = <<>>

\* where the for loop of line 298 goes after document number i
Siguiente(i) == IF i < Len(archivos) THEN "leer" ELSE "resumen"

\* line 276
CrearCliente ==
    /\ pc = "main"
    /\ LET r == crear_cliente_openai(api_key)
       IN  IF r.ok
           THEN /\ pc' = "listar"
                /\ UNCHANGED excepcion
           ELSE /\ pc' = "main_except"
                /\ excepcion' = <<r.exc>>
    /\ UNCHANGED <<enviados, corrida, anterior, registro>>
    /\ UNCHANGED <<entrada, validado, api_key, directorio, archivos, idx, texto,
                   respuesta, datos_doc, intento, peticiones, historial,
                   resultados, errores, salida, resumen, leidos, escrituras,
                   total_peticiones, exit_status, reloj>>

\* lines 279-296
Listar ==
    /\ pc = "listar"
    /\ archivos' = listar_archivos(directorio)
    /\ pc' = IF archivos' = <<>> THEN "return" ELSE "leer"
    /\ resultados' = <<>>
    /\ errores' = <<>>
    /\ idx' = 0
    /\ UNCHANGED <<enviados, corrida, anterior, registro>>
    /\ UNCHANGED <<entrada, validado, api_key, directorio, texto, respuesta,
                   datos_doc, intento, peticiones, historial, salida, resumen,
                   leidos, escrituras, total_peticiones, excepcion,
                   exit_status, reloj>>

\* lines 298-302 and 321-323: the next document is read
Leer ==
    /\ pc = "leer"
    /\ idx < Len(archivos)
    /\ LET f == archivos[idx + 1]
           r == leer_archivo(f)
       IN  /\ idx' = idx + 1
           /\ leidos' = leidos \cup {f.nombre}
           /\ historial' = <<>>
           /\ peticiones' = 0
           /\ enviados' = <<>>
           /\ IF r.ok
              THEN /\ texto' = r.datos
                   /\ intento' = 1
                   /\ pc' = "intento"
                   /\ UNCHANGED <<errores, excepcion>>
              ELSE IF capturada(r.exc)
              THEN /\ errores' = Append(errores, [archivo |-> f.nombre, error |-> r.exc])
                   /\ pc' = Siguiente(idx + 1)
                   /\ UNCHANGED <<texto, intento, excepcion>>
              ELSE /\ excepcion' = <<r.exc>>
                   /\ pc' = "main_except"
                   /\ UNCHANGED <<texto, intento, errores>>
    /\ UNCHANGED <<corrida, anterior, registro>>
    /\ UNCHANGED <<entrada, validado, api_key, directorio, archivos, respuesta,
                   datos_doc, resultados, salida, resumen, escrituras,
                   total_peticiones, exit_status, reloj>>

\* a handler that logs the failure and records nothing
Propagar_sin_registrar(e) ==
    /\ pc' = Siguiente(idx)
    /\ UNCHANGED <<errores, excepcion>>

\* the RuntimeError e leaves extraer_datos inside the try of line 301
Propagar(e) ==
    IF capturada(e)
    THEN /\ errores' = Append(errores, [archivo |-> archivos[idx].nombre, error |-> e])
         /\ pc' = Siguiente(idx)
         /\ UNCHANGED excepcion
    ELSE /\ excepcion' = <<e>>
         /\ pc' = "main_except"
         /\ UNCHANGED errores

\* what the completion request brought: an exception of the client or the
\* reply r
Desenlace(falla, r) ==
    [falla |-> falla, r |-> IF falla THEN SinRespuesta ELSE r]

\* lines 231-267: one iteration of the loop of extraer_datos; the request
\* fails for a value of fallas or brings a reply of resps, and anotar tells
\* whether the run keeps the register of what it was answered
IntentoCon(fallas, resps, anotar) ==
    /\ pc = "intento"
    /\ \E falla \in fallas, e \in ErroresCliente, r \in resps :
          LET res == IF falla THEN Raise(e) ELSE procesar_respuesta(r)
          IN  /\ peticiones' = peticiones + 1
              /\ enviados' = Append(enviados, mensajes(texto, historial))
              /\ registro' = IF anotar THEN Append(registro, Desenlace(falla, r))
                             ELSE registro
              /\ total_peticiones' = total_peticiones + 1
              /\ respuesta' = IF falla THEN respuesta ELSE r
              /\ IF res.ok
                 THEN /\ datos_doc' = res.datos
                      /\ historial' = Append(historial, Exc("ok", ""))
                      /\ pc' = "guardar"
                      /\ UNCHANGED <<intento, errores, excepcion>>
                 ELSE /\ historial' = Append(historial, res.exc)
                      /\ UNCHANGED datos_doc
                      /\ LET m == manejar_error(intento, res.exc)
                         IN  IF m.raise
                             THEN Propagar(m.exc) /\ UNCHANGED intento
                             ELSE IF intento + 1 \in RangoIntentos
                             THEN /\ intento' = intento + 1
                                  /\ UNCHANGED <<pc, errores, excepcion>>
                             ELSE /\ Propagar(Exc("RuntimeError",
                                          "Error inesperado en extraer_datos."))
                                  /\ UNCHANGED intento
    /\ UNCHANGED <<corrida, anterior>>
    /\ UNCHANGED <<entrada, validado, api_key, directorio, archivos, idx, texto,
                   resultados, salida, resumen, leidos, escrituras,
                   exit_status, reloj>>

Intento == IntentoCon(BOOLEAN, RespuestasLote, FALSE)

\* lines 306-319
Guardar ==
    /\ pc = "guardar"
    /\ resultados' = Append(resultados,
                            [archivo_origen |-> archivos[idx].nombre,
                             datos_extraidos |-> datos_doc,
                             procesado_en |-> reloj])
    /\ reloj' = reloj + 1
    /\ salida' = write_text(salida, stem(archivos[idx].nombre),
                            contenido_individual(datos_doc))
    /\ escrituras' = escrituras + 1
    /\ pc' = Siguiente(idx)
    /\ UNCHANGED <<enviados, corrida, anterior, registro>>
    /\ UNCHANGED <<entrada, validado, api_key, directorio, archivos, idx, texto,
                   respuesta, datos_doc, intento, peticiones, historial, errores,
                   resumen, leidos, total_peticiones, excepcion, exit_status>>

\* lines 326-346
EscribirResumen ==
    /\ pc = "resumen"
    /\ resumen' = << [total_procesados |-> Len(resultados),
                      total_errores |-> Len(errores),
                      fecha_procesamiento |-> reloj,
                      resultados |-> resultados,
                      errores |-> errores] >>
    /\ reloj' = reloj + 1
    /\ escrituras' = escrituras + 1
    /\ pc' = "return"
    /\ UNCHANGED <<enviados, corrida, anterior, registro>>
    /\ UNCHANGED <<entrada, validado, api_key, directorio, archivos, idx, texto,
                   respuesta, datos_doc, intento, peticiones, historial,
                   resultados, errores, salida, leidos, total_peticiones,
                   excepcion, exit_status>>

\* lines 353-356: procesar_archivos returned
Retornar ==
    /\ pc = "return"
    /\ exit_status' = 0
    /\ pc' = "exit"
    /\ UNCHANGED <<enviados, corrida, anterior, registro>>
    /\ UNCHANGED <<entrada, validado, api_key, directorio, archivos, idx, texto,
                   respuesta, datos_doc, intento, peticiones, historial,
                   resultados, errores, salida, resumen, leidos, escrituras,
                   total_peticiones, excepcion, reloj>>

\* a main block with no clause for the interruption of the user
estado_de_salida_sin_interrupcion(e) ==
    IF e.cls = "EnvironmentError" THEN 1
    ELSE 1

\* lines 357-362; an exception with no handler ends the interpreter with
\* a traceback and status 1
estado_de_salida(e) ==
    IF e.cls = "EnvironmentError" THEN 1
    ELSE IF e.cls = "KeyboardInterrupt" THEN 0
    ELSE 1

MainExcept ==
    /\ pc = "main_except"
    /\ exit_status' = estado_de_salida(excepcion[1])
    /\ pc' = "exit"
    /\ UNCHANGED <<enviados, corrida, anterior, registro>>
    /\ UNCHANGED <<entrada, validado, api_key, directorio, archivos, idx, texto,
                   respuesta, datos_doc, intento, peticiones, historial,
                   resultados, errores, salida, resumen, leidos, escrituras,
                   total_peticiones, excepcion, reloj>>

\* the user interrupts the batch (Ctrl-C): KeyboardInterrupt is no
\* Exception, so neither line 259 nor line 321 catches it
Interrumpir ==
    /\ pc \in {"leer", "intento", "guardar", "resumen"}
    /\ excepcion' = <<Exc("KeyboardInterrupt", "")>>
    /\ pc' = "main_except"
    /\ UNCHANGED <<enviados, corrida, anterior, registro>>
    /\ UNCHANGED <<entrada, validado, api_key, directorio, archivos, idx, texto,
                   respuesta, datos_doc, intento, peticiones, historial,
                   resultados, errores, salida, resumen, leidos, escrituras,
                   total_peticiones, exit_status, reloj>>

Next ==
    \/ CrearCliente
    \/ Listar
    \/ Leer
    \/ Intento
    \/ Guardar
    \/ EscribirResumen
    \/ Retornar
    \/ MainExcept
    \/ Interrumpir

Spec == Init /\ [][Next]_vars

-----------------------------------------------------------------------------
(* The program run twice over the same input directory: when the first    *)
(* process has ended a second one is started; the output directory and    *)
(* the clock are what the second process inherits.                        *)

MaxArchivosRepetir == 2   \* most files in the directory of the repeated run

DirectoriosRepetir ==
    { d \in Directorios : /\ Cardinality(d) <= MaxArchivosRepetir
                          /\ \A f \in d : f.contenido = "texto" }

ClavesRepetir == { SinClave, Clave("sk-proj-1") }

\* the replies of the repeated runs: two records, both valid
RespuestasRepetir ==
    { Texto(<<Linea("json", Obj(RegistroBase))>>),
      Texto(<<Fence, Linea("json", Obj(RegistroQueja)), Fence>>) }

InitRepetir ==
    /\ entrada = SinRespuesta
    /\ validado = <<>>
    /\ pc = "main"
    /\ api_key \in ClavesRepetir
    /\ directorio \in DirectoriosRepetir
    /\ archivos = <<>>
    /\ idx = 0
    /\ texto = <<>>
    /\ respuesta = SinRespuesta
    /\ datos_doc = SinDatos
    /\ intento = 0
    /\ peticiones = 0
    /\ historial = <<>>
    /\ resultados = <<>>
    /\ errores = <<>>
    /\ salida = <<>>
    /\ resumen = <<>>
    /\ leidos = {}
    /\ escrituras = 0
    /\ total_peticiones = 0
    /\ excepcion = <<>>
    /\ exit_status = -1
    /\ reloj = 0
    /\ enviados = <<>>
    /\ corrida = 1
    /\ anterior = <<>>
    /\ registro = <<>>

IntentoRepetir == IntentoCon(BOOLEAN, RespuestasRepetir, TRUE)

\* the first process has ended and the program is started again: what it
\* left on disk and what it was answered are kept for comparison
Reiniciar ==
    /\ pc = "exit"
    /\ corrida = 1
    /\ corrida' = 2
    /\ anterior' = << [salida |-> salida, resumen |-> resumen,
                       registro |-> registro, exit_status |-> exit_status] >>
    /\ registro' = <<>>
    /\ pc' = "main"
    /\ archivos' = <<>>
    /\ idx' = 0
    /\ texto' = <<>>
    /\ respuesta' = SinRespuesta
    /\ datos_doc' = SinDatos
    /\ intento' = 0
    /\ peticiones' = 0
    /\ historial' = <<>>
    /\ resultados' = <<>>
    /\ errores' = <<>>
    /\ leidos' = {}
    /\ escrituras' = 0
    /\ total_peticiones' = 0
    /\ excepcion' = <<>>
    /\ exit_status' = -1
    /\ enviados' = <<>>
    /\ UNCHANGED <<entrada, validado, api_key, directorio, salida, resumen, reloj>>

NextRepetir ==
    \/ CrearCliente
    \/ Listar
    \/ Leer
    \/ IntentoRepetir
    \/ Guardar
    \/ EscribirResumen
    \/ Retornar
    \/ MainExcept
    \/ Reiniciar

SpecRepetir == InitRepetir /\ [][NextRepetir]_vars

-----------------------------------------------------------------------------
(* The validator alone, run once on each reply of RespuestasValidar *)

InitValidar ==
    /\ entrada \in RespuestasValidar
    /\ validado = <<>>
    /\ pc = "validar"
    /\ api_key = SinClave
    /\ directorio = {}
    /\ archivos = <<>>
    /\ idx = 0
    /\ texto = <<>>
    /\ respuesta = SinRespuesta
    /\ datos_doc = SinDatos
    /\ intento = 0
    /\ peticiones = 0
    /\ historial = <<>>
    /\ resultados = <<>>
    /\ errores = <<>>
    /\ salida = <<>>
    /\ resumen = <<>>
    /\ leidos = {}
    /\ escrituras = 0
    /\ total_peticiones = 0
    /\ excepcion = <<>>
    /\ exit_status = -1
    /\ reloj = 0
    /\ enviados = <<>>
    /\ corrida = 1
    /\ anterior = <<>>
    /\ registro = <<>>

\* lines 169-223
Validar ==
    /\ pc = "validar"
    /\ validado = <<>>
    /\ validado' = <<validar_json(entrada)>>
    /\ UNCHANGED <<entrada, loteVars>>

NextValidar == Validar

SpecValidar == InitValidar /\ [][NextValidar]_vars


-----------------------------------------------------------------------------
(* Properties of the batch (specification Spec) *)

\* the document number idx has been dealt with and nothing stopped the run
DocumentoTerminado ==
    /\ pc \in {"leer", "resumen", "return", "exit"}
    /\ idx >= 1
    /\ excepcion = <<>>

UltimoError == errores[Len(errores)]

MsgFatalValidacion == "Fallo la extraccion despues de n intentos. Ultimo error"
MsgFatalApi == "Error de API despues de n intentos"

\* C1: every file leer_archivo was called on and failed on has a Failure
\* outcome (file name and message) in errores, and the failure does not end
\* the batch: no exception other than the user's interruption leaves
\* procesar_archivos.
C1_FalloDeLecturaRegistrado ==
    \A f \in directorio :
        (f.nombre \in leidos /\ ~leer_archivo(f).ok)
            => /\ \E i \in DOMAIN errores :
                    /\ errores[i].archivo = f.nombre
                    /\ errores[i].error = leer_archivo(f).exc
               /\ (excepcion = <<>> \/ excepcion[1].cls = "KeyboardInterrupt")

\* C2: no document gets a 4th completion request, and a document all of
\* whose replies failed validation ends after exactly 3 requests with the
\* Fatal RuntimeError recorded for it.
C2_TresPeticionesYFatal ==
    /\ peticiones <= 3
    /\ (/\ DocumentoTerminado
        /\ historial # <<>>
        /\ \A i \in DOMAIN historial : historial[i].cls = "ValueError")
           => /\ Len(historial) = 3
              /\ peticiones = 3
              /\ errores # <<>>
              /\ UltimoError.archivo = archivos[idx].nombre
              /\ UltimoError.error.cls = "RuntimeError"
              /\ UltimoError.error.msg = MsgFatalValidacion

C2_Witness ==
    /\ DocumentoTerminado
    /\ Len(historial) = 3
    /\ \A i \in DOMAIN historial : historial[i].cls = "ValueError"

\* an attempt of extraer_datos has just failed
FalloEnIntento ==
    /\ pc = "intento"
    /\ Len(historial') = Len(historial) + 1
    /\ historial'[Len(historial')].cls # "ok"

\* C3: whatever the kind of the failure, a failed attempt n < 3 is followed
\* by attempt n + 1 with nothing recorded, a failed attempt 3 ends the
\* document with the Fatal error recorded, and the number of requests made
\* for the document is the number of the attempt, never more than 3.
C3_PresupuestoCompartido ==
    [][FalloEnIntento =>
          /\ peticiones' = intento
          /\ peticiones' <= 3
          /\ (intento < 3 => /\ pc' = "intento"
                             /\ intento' = intento + 1
                             /\ errores' = errores)
          /\ (intento = 3 => /\ pc' \in {"leer", "resumen"}
                             /\ Len(errores') = Len(errores) + 1
                             /\ errores'[Len(errores')].error.cls = "RuntimeError"
                             /\ errores'[Len(errores')].error.n = 3)]_vars

C3_Witness ==
    /\ DocumentoTerminado
    /\ Len(historial) = 3
    /\ historial[1].cls = "APIError"
    /\ historial[2].cls = "ValueError"
    /\ historial[3].cls = "APIError"

\* C4: when the 3rd attempt of a document fails, the Failure outcome
\* recorded for that document carries the error of the 3rd attempt, under
\* the validation wording when that error is a validation failure and under
\* the API wording when it is a failure of the completion call.
C4_FatalLlevaUltimoError ==
    (DocumentoTerminado /\ Len(historial) = 3 /\ historial[3].cls # "ok")
        => /\ errores # <<>>
           /\ UltimoError.archivo = archivos[idx].nombre
           /\ UltimoError.error.cls = "RuntimeError"
           /\ UltimoError.error.causa = <<historial[3]>>
           /\ UltimoError.error.msg =
                 IF historial[3].cls = "ValueError" THEN MsgFatalValidacion
                 ELSE MsgFatalApi

C4_Witness ==
    /\ DocumentoTerminado
    /\ Len(historial) = 3
    /\ historial[1].cls = "APIError"
    /\ historial[2].msg = "Respuesta no es JSON valido"
    /\ historial[3].msg = "Campos faltantes en el JSON"
    /\ \E i \in DOMAIN errores :
          /\ errores[i].error.msg = MsgFatalApi
          /\ errores[i].error.causa[1].cls = "APIError"

\* C5: the record in hand when an artifact is about to be written is the
\* one validar_json returned for the latest reply, and every record in
\* resultados, in an individual artifact or in the summary passes the
\* field checks of the validator.
C5_SoloRegistrosValidados ==
    /\ pc = "guardar" => /\ validar_json(respuesta).ok
                         /\ datos_doc = validar_json(respuesta).datos
    /\ \A i \in DOMAIN resultados :
          validar_campos(resultados[i].datos_extraidos).ok
    /\ \A s \in DOMAIN salida : validar_campos(salida[s]).ok
    /\ resumen # <<>> =>
          \A i \in DOMAIN resumen[1].resultados :
              validar_campos(resumen[1].resultados[i].datos_extraidos).ok

C5_Witness ==
    /\ resumen # <<>>
    /\ resumen[1].resultados # <<>>
    /\ salida # <<>>
    /\ Len(historial) = 3
    /\ historial[1].cls = "ValueError"
    /\ historial[2].cls = "ValueError"
    /\ historial[3].cls = "ok"


\* C7: every individual artifact holds exactly the four validated fields.
C7_ArtefactoSoloCuatroCampos ==
    \A s \in DOMAIN salida :
        DOMAIN salida[s] = {"nombre_cliente", "monto", "fecha", "tipo_solicitud"}

CredencialAusente ==
    ~api_key.set \/ api_key.valor = "sk-tu-api-key-aqui"

\* C10: with the credential absent or the placeholder, the run never gets
\* past the creation of the client: no file is listed or read, no request
\* is issued, nothing is written, the exception that ends the run is the
\* EnvironmentError and the exit status is 1.
C10_SinCredencialNadaSeToca ==
    CredencialAusente
        => /\ pc \in {"main", "main_except", "exit"}
           /\ archivos = <<>>
           /\ leidos = {}
           /\ total_peticiones = 0
           /\ escrituras = 0
           /\ salida = <<>>
           /\ resumen = <<>>
           /\ exit_status \in {-1, 1}
           /\ pc # "main" => /\ excepcion # <<>>
                             /\ excepcion[1].cls = "EnvironmentError"
           /\ pc = "exit" => exit_status = 1

C10_Witness ==
    /\ api_key = Clave("sk-tu-api-key-aqui")
    /\ \E f \in directorio : f.nombre = a_pdf /\ f.contenido = "texto"
    /\ pc = "exit"
    /\ exit_status = 1

-----------------------------------------------------------------------------
(* Properties of the validator (specification SpecValidar) *)

\* the reply is one line holding a JSON object
EsObjetoPlano(e) ==
    /\ ~e.none
    /\ Len(e.lineas) = 1
    /\ e.lineas[1].kind = "json"
    /\ e.lineas[1].doc.k = "dict"

ObjetoDe(e) == e.lineas[1].doc.obj

TextoDeObjeto(f) == Texto(<<Linea("json", Obj(f))>>)

LosCuatroCampos == {"nombre_cliente", "monto", "fecha", "tipo_solicitud"}

\* C6: on an otherwise well-formed object the amount is accepted when it
\* is null, an integer or a floating-point number, and rejected with a
\* ValueError when it is a string or a boolean.
C6_MontoNuloONumerico ==
    validado # <<>> =>
        \A m \in MontoValores :
            entrada = TextoDeObjeto([RegistroBase EXCEPT !["monto"] = m])
                => /\ m.t \in {"NoneType", "int", "float"} => validado[1].ok
                   /\ m.t \in {"str", "bool"} =>
                          ~validado[1].ok /\ validado[1].exc.cls = "ValueError"

\* C8: on an object whose other fields are well formed, a request type
\* that is a string is accepted exactly when it is Venta, Queja or
\* Factura; any other string is rejected with a ValueError that names the
\* value and lists the three allowed tags.
C8_TipoSolicitud ==
    validado # <<>> =>
        \A m \in {Null, Cien, Num("float", <<"1",".","5">>)}, t \in TipoValores :
            (/\ t.t = "str"
             /\ entrada = TextoDeObjeto([RegistroBase EXCEPT
                                 !["monto"] = m, !["tipo_solicitud"] = t]))
                => IF t.v \in {Venta, Queja, Factura}
                   THEN /\ validado[1].ok
                        /\ validado[1].datos["tipo_solicitud"] = t
                   ELSE /\ ~validado[1].ok
                        /\ validado[1].exc.cls = "ValueError"
                        /\ validado[1].exc.valor = t.v
                        /\ validado[1].exc.permitidos = {Venta, Queja, Factura}

C8_Witness ==
    /\ validado # <<>>
    /\ entrada = TextoDeObjeto([RegistroBase EXCEPT
                     !["tipo_solicitud"] = Str(<<"v","e","n","t","a">>)])
    /\ ~validado[1].ok
    /\ validado[1].exc.permitidos = TIPOS_VALIDOS

\* C9: an object that lacks some of the four fields is rejected with the
\* ValueError that names exactly the fields it lacks, whatever the values
\* of the fields it has; an object with the four fields well formed and a
\* key more is accepted.
C9_CamposFaltantes ==
    (validado # <<>> /\ EsObjetoPlano(entrada)) =>
        LET f == ObjetoDe(entrada)
            falt == { c \in LosCuatroCampos : c \notin DOMAIN f }
        IN  /\ falt # {} => /\ ~validado[1].ok
                            /\ validado[1].exc.cls = "ValueError"
                            /\ validado[1].exc.msg = "Campos faltantes en el JSON"
                            /\ validado[1].exc.faltantes = falt
            /\ (/\ falt = {}
                /\ DOMAIN f # LosCuatroCampos
                /\ f["nombre_cliente"] = Str(Acme)
                /\ f["monto"] \in {Null, Cien}
                /\ f["fecha"] = Str(Fecha1)
                /\ f["tipo_solicitud"] \in {Str(Venta), Str(Queja), Str(Factura)})
                   => validado[1].ok /\ validado[1].datos = f

\* the object of the missing-field scenario: no tipo_solicitud, and the
\* other fields well formed
C9_Witness ==
    /\ validado # <<>>
    /\ entrada = TextoDeObjeto(Restringir(RegistroBase,
                                  {"nombre_cliente", "monto", "fecha"}))
    /\ ~validado[1].ok
    /\ validado[1].exc.faltantes = {"tipo_solicitud"}


-----------------------------------------------------------------------------
(* Properties of the batch, continued (specification Spec) *)

\* the files of the directory whose extension is one of the supported ones
NombresSoportados == {a_pdf, a_txt, b_XLSX}

\* procesar_archivos returned after the loop over a non-empty list
BatchCompleto ==
    /\ pc \in {"return", "exit"}
    /\ excepcion = <<>>
    /\ archivos # <<>>

VecesEnResultados(nombre) ==
    Cardinality({ i \in DOMAIN resultados : resultados[i].archivo_origen = nombre })

VecesEnErrores(nombre) ==
    Cardinality({ i \in DOMAIN errores : errores[i].archivo = nombre })

\* C11: the summary exists only once the last document is done; after a
\* complete batch exactly one summary has been written (the writes are the
\* individual artifacts plus one), it holds the final lists, every
\* supported file is in exactly one of the two lists, every other file in
\* neither, each total is the length of its list and the totals add up to
\* the number of supported files.
C11_ResumenAgregaTodo ==
    /\ resumen # <<>> => pc \in {"return", "exit"}
    /\ BatchCompleto =>
          /\ resumen # <<>>
          /\ escrituras = Len(resultados) + 1
          /\ resumen[1].resultados = resultados
          /\ resumen[1].errores = errores
          /\ resumen[1].total_procesados = Len(resumen[1].resultados)
          /\ resumen[1].total_errores = Len(resumen[1].errores)
          /\ resumen[1].total_procesados + resumen[1].total_errores =
                Cardinality({ f \in directorio : f.nombre \in NombresSoportados })
          /\ \A f \in directorio :
                VecesEnResultados(f.nombre) + VecesEnErrores(f.nombre) =
                    IF f.nombre \in NombresSoportados THEN 1 ELSE 0

C11_Witness ==
    /\ BatchCompleto
    /\ \E f \in directorio : f.nombre = n_md
    /\ resumen # <<>>
    /\ resumen[1].total_procesados = 1
    /\ resumen[1].total_errores = 1


\* the place of each file name of the runs in the order of code points:
\* "a.pdf" < "a.txt" < "b.XLSX" < "n.md"
Rango(nombre) ==
    IF nombre = a_pdf THEN 1
    ELSE IF nombre = a_txt THEN 2
    ELSE IF nombre = b_XLSX THEN 3
    ELSE 4

EnOrden(nombres) ==
    \A i, j \in DOMAIN nombres : i < j => Rango(nombres[i]) < Rango(nombres[j])

NombresDeResultados(rs) == [i \in DOMAIN rs |-> rs[i].archivo_origen]

NombresDeErrores(es) == [i \in DOMAIN es |-> es[i].archivo]

\* the document of file name nombre has its outcome, in one list only
ConDesenlace(nombre) == VecesEnResultados(nombre) + VecesEnErrores(nombre) = 1

SinDesenlace(nombre) == VecesEnResultados(nombre) + VecesEnErrores(nombre) = 0

\* a completion request, an artifact write or the recording of an outcome
PasoDeDocumento ==
    \/ total_peticiones' # total_peticiones
    \/ resultados' # resultados
    \/ errores' # errores

\* C12: the documents are taken in increasing order of file name, one at a
\* time: every request, artifact write and recorded outcome belongs to the
\* current document, is made when each earlier document has its outcome and
\* this one has none, the loop moves to the next document only when the
\* current one has its outcome, and the two lists, in memory and in the
\* summary, keep the order of processing.
C12_UnoTrasOtroEnOrden ==
    [][/\ EnOrden([i \in DOMAIN archivos' |-> archivos'[i].nombre])
       /\ EnOrden(NombresDeResultados(resultados'))
       /\ EnOrden(NombresDeErrores(errores'))
       /\ resumen' # <<>> =>
             /\ EnOrden(NombresDeResultados(resumen'[1].resultados))
             /\ EnOrden(NombresDeErrores(resumen'[1].errores))
       /\ idx' \in {idx, idx + 1}
       /\ idx' = idx + 1 =>
             \A j \in 1..idx : ConDesenlace(archivos[j].nombre)
       /\ PasoDeDocumento =>
             /\ idx' \in DOMAIN archivos
             /\ \A j \in 1..(idx' - 1) : ConDesenlace(archivos[j].nombre)
             /\ SinDesenlace(archivos[idx'].nombre)
             /\ resultados' # resultados =>
                   /\ resultados' = Append(resultados, resultados'[Len(resultados')])
                   /\ resultados'[Len(resultados')].archivo_origen = archivos[idx'].nombre
                   /\ stem(archivos[idx'].nombre) \in DOMAIN salida'
                   /\ pc = "guardar"
             /\ errores' # errores =>
                   /\ errores' = Append(errores, errores'[Len(errores')])
                   /\ errores'[Len(errores')].archivo = archivos[idx'].nombre
      ]_vars

C12_Witness ==
    /\ BatchCompleto
    /\ Len(archivos) = 3
    /\ Len(resultados) = 2
    /\ Len(errores) = 1
    /\ errores[1].archivo = a_txt
    /\ total_peticiones >= 7


\* the client can be built and no file of the directory is a supported one
SinArchivosSoportados ==
    /\ crear_cliente_openai(api_key).ok
    /\ \A f \in directorio : f.nombre \notin NombresSoportados

\* C13: with no supported file in the directory the run goes from the
\* listing straight to the return: no document is read, no request is made,
\* nothing is written (no individual artifact, no summary), the result is
\* the empty list, no exception is raised and the process ends with
\* status 0.
C13_DirectorioSinSoportados ==
    SinArchivosSoportados =>
        /\ pc \in {"main", "listar", "return", "exit"}
        /\ archivos = <<>>
        /\ leidos = {}
        /\ total_peticiones = 0
        /\ escrituras = 0
        /\ salida = <<>>
        /\ resumen = <<>>
        /\ resultados = <<>>
        /\ errores = <<>>
        /\ excepcion = <<>>
        /\ pc = "exit" => exit_status = 0

C13_Witness ==
    /\ SinArchivosSoportados
    /\ \E f \in directorio : f.nombre = n_md
    /\ pc = "exit"
    /\ exit_status = 0


\* the user has interrupted the batch
Interrumpido ==
    /\ excepcion # <<>>
    /\ excepcion[1].cls = "KeyboardInterrupt"

\* C14: from the step that interrupts the batch on, the output directory
\* does not change (the artifacts written so far keep their content, none
\* is added), no write and no request is made, no summary exists, and the
\* only step left is the exit of the process, with status 0.
C14_InterrupcionLimpia ==
    [][Interrumpido' =>
          /\ salida' = salida
          /\ escrituras' = escrituras
          /\ total_peticiones' = total_peticiones
          /\ resultados' = resultados
          /\ resumen' = <<>>
          /\ pc' \in {"main_except", "exit"}
          /\ pc' = "exit" => exit_status' = 0
      ]_vars

C14_Witness ==
    /\ Interrumpido
    /\ pc = "exit"
    /\ exit_status = 0
    /\ Len(resultados) = 1
    /\ DOMAIN salida # {}
    /\ idx = 2
    /\ peticiones = 2


\* the latest attempt made for the current document brought a valid reply
ExitoEnIntento ==
    /\ historial # <<>>
    /\ historial[Len(historial)].cls = "ok"

\* the request of lines 235-242 for the text of the current document
PeticionEsperada ==
    << [role |-> "system",
        content |-> [prompt |-> "SYSTEM_PROMPT", adjunto |-> <<>>]],
       [role |-> "user",
        content |-> [prompt |-> "Extrae los datos del siguiente texto:",
                     adjunto |-> <<texto>>]] >>

\* C16: every request made for a document carries the same two messages,
\* the system prompt and the user prompt with the document text and nothing
\* else; and when attempt n brings the first valid reply, n <= 3, the n - 1
\* attempts before it all failed, exactly n requests were made, no further
\* attempt follows, and the record returned, which is the one stored in the
\* Success outcome, is the validated reply of attempt n.
C16_PrimerIntentoValido ==
    /\ Len(enviados) = peticiones
    /\ \A i \in DOMAIN enviados : enviados[i] = PeticionEsperada
    /\ ExitoEnIntento =>
          LET n == Len(historial)
          IN  /\ n <= 3
              /\ \A i \in 1..(n - 1) : historial[i].cls # "ok"
              /\ peticiones = n
              /\ intento = n
              /\ pc # "intento"
              /\ validar_json(respuesta).ok
              /\ datos_doc = validar_json(respuesta).datos
              /\ (pc \in {"leer", "resumen", "return", "exit"} /\ excepcion = <<>>) =>
                    /\ resultados # <<>>
                    /\ resultados[Len(resultados)].archivo_origen = archivos[idx].nombre
                    /\ resultados[Len(resultados)].datos_extraidos =
                          validar_json(respuesta).datos

C16_Witness ==
    /\ ExitoEnIntento
    /\ pc = "leer"
    /\ Len(historial) = 3
    /\ historial[1].cls = "ValueError"
    /\ historial[2].cls = "APIError"
    /\ Len(enviados) = 3


\* C17: after a complete batch every Success outcome has its artifact, the
\* file named after the stem of the source file holds the record of that
\* source file, and there are as many individual artifacts as successes.
C17_UnArtefactoPorExito ==
    BatchCompleto =>
        /\ \A i \in DOMAIN resultados :
              /\ stem(resultados[i].archivo_origen) \in DOMAIN salida
              /\ salida[stem(resultados[i].archivo_origen)] =
                    resultados[i].datos_extraidos
        /\ Cardinality(DOMAIN salida) = Len(resultados)

MsgInesperado == "Error inesperado en extraer_datos."

\* extraer_datos has been left for the current document
ExtraccionTerminada ==
    /\ historial # <<>>
    /\ pc # "intento"
    /\ ~Interrumpido

\* C20: the statement of line 267 is never executed: no error with its
\* message is recorded or raised, and extraer_datos is left either by the
\* return at a valid reply or by the Fatal RuntimeError raised in a handler
\* at attempt 3, whatever the outcomes of the attempts.
C20_FinDeBucleInalcanzable ==
    /\ \A i \in DOMAIN errores : errores[i].error.msg # MsgInesperado
    /\ excepcion # <<>> => excepcion[1].msg # MsgInesperado
    /\ ExtraccionTerminada =>
          \/ ExitoEnIntento
          \/ /\ Len(historial) = 3
             /\ \A i \in DOMAIN historial : historial[i].cls # "ok"
             /\ errores # <<>>
             /\ UltimoError.archivo = archivos[idx].nombre
             /\ UltimoError.error.msg \in {MsgFatalValidacion, MsgFatalApi}
             /\ UltimoError.error.n = 3
             /\ UltimoError.error.causa = <<historial[3]>>

C20_Witness ==
    /\ ExtraccionTerminada
    /\ Len(historial) = 3
    /\ historial[1].cls = "APIError"
    /\ historial[2].cls = "APIError"
    /\ historial[3].cls = "ValueError"
    /\ UltimoError.error.msg = MsgFatalValidacion


-----------------------------------------------------------------------------
(* Properties of the validator, continued (specification SpecValidar) *)

EsDigitoDecimal(c) == c \in {"0","1","2","3","4","5","6","7","8","9"}

DosDigitos(s, i) == 10 * ValorDigito(s[i]) + ValorDigito(s[i + 1])

\* s is YYYY-MM-DD, every field zero-padded, and names a day of the calendar
FormaFija(s) ==
    /\ Len(s) = 10
    /\ s[5] = "-"
    /\ s[8] = "-"
    /\ \A i \in {1, 2, 3, 4, 6, 7, 9, 10} : EsDigitoDecimal(s[i])
    /\ LET y == 100 * DosDigitos(s, 1) + DosDigitos(s, 3)
           m == DosDigitos(s, 6)
           d == DosDigitos(s, 9)
       IN  /\ y >= 1
           /\ m \in 1..12
           /\ d \in 1..DiasDelMes(y, m)

\* C18: on an object whose other fields are well formed, the date is
\* accepted exactly when it is a string of the form YYYY-MM-DD, zero-padded,
\* that names a real day; every other value is rejected with a ValueError.
C18_FechaDeFormaFija ==
    validado # <<>> =>
        \A f \in FechaValores :
            entrada = TextoDeObjeto([RegistroBase EXCEPT !["fecha"] = f])
                => IF f.t = "str" /\ FormaFija(f.v)
                   THEN validado[1].ok
                   ELSE /\ ~validado[1].ok
                        /\ validado[1].exc.cls = "ValueError"

TextoDeLista(xs) == Texto(<<Linea("json", Lista(xs))>>)

MsgListaVacia == "La IA devolvio una lista vacia."
MsgNoEsObjeto == "Se esperaba un objeto JSON, se recibio"

\* C19: a list reply is judged by its first element alone: the empty list
\* fails with the empty-list error; a list whose first element is an object
\* gets the verdict, record or error, of that object sent alone, whatever
\* follows it, so the well-formed record comes back as it is; a list whose
\* first element is a number or another list fails with the
\* expected-an-object error naming the type of that element, the inner list
\* not being opened.
C19_PrimerElementoDeLista ==
    validado # <<>> =>
        \A xs \in Listas :
            entrada = TextoDeLista(xs) =>
                IF xs = <<>>
                THEN /\ ~validado[1].ok
                     /\ validado[1].exc.cls = "ValueError"
                     /\ validado[1].exc.msg = MsgListaVacia
                ELSE IF xs[1].k = "dict"
                THEN /\ validado[1] = validar_json(TextoDeObjeto(xs[1].obj))
                     /\ xs[1].obj = RegistroBase =>
                           validado[1].ok /\ validado[1].datos = RegistroBase
                ELSE /\ ~validado[1].ok
                     /\ validado[1].exc.cls = "ValueError"
                     /\ validado[1].exc.msg = MsgNoEsObjeto
                     /\ validado[1].exc.tipo =
                           IF xs[1].k = "list" THEN "list" ELSE "int"

C19_Witness ==
    /\ validado # <<>>
    /\ entrada = TextoDeLista(<<Obj(RegistroBase), Lista(<<Obj(RegistroBase)>>)>>)
    /\ validado[1].ok
    /\ validado[1].datos = RegistroBase


-----------------------------------------------------------------------------
(* Properties of the repeated run (specification SpecRepetir) *)

\* the second run over the directory has ended
SegundaCorridaTerminada ==
    /\ corrida = 2
    /\ pc = "exit"

\* the output directory holds what the first run left in it, and the
\* summary, when there is one, has the counts of the summary of the first run
MismoResultado ==
    /\ salida = anterior[1].salida
    /\ (resumen = <<>>) = (anterior[1].resumen = <<>>)
    /\ resumen # <<>> =>
          /\ resumen[1].total_procesados = anterior[1].resumen[1].total_procesados
          /\ resumen[1].total_errores = anterior[1].resumen[1].total_errores

\* C15, as stated: after the second run over the unchanged directory every
\* individual artifact has the content the first run gave it and the summary
\* has the counts of the first run.
C15_Idempotencia ==
    SegundaCorridaTerminada => MismoResultado

\* C15, amended: the same holds when every completion request of the second
\* run was answered as the corresponding request of the first run.
C15_IdempotenciaConMismasRespuestas ==
    (SegundaCorridaTerminada /\ registro = anterior[1].registro) =>
        /\ MismoResultado
        /\ exit_status = anterior[1].exit_status

C15_Witness ==
    /\ SegundaCorridaTerminada
    /\ registro = anterior[1].registro
    /\ Len(registro) = 4
    /\ resumen # <<>>
    /\ resumen[1].total_procesados = 1
    /\ resumen[1].total_errores = 1
    /\ DOMAIN salida # {}

=============================================================================
